---- MODULE Spec2Model ----
(***************************************************************************)
(* Proxy aggregator service: the proxy health-tracking engine of           *)
(* src/main.py and its SQLite mirror of src/database.py.                   *)
(*                                                                         *)
(* The program is one asyncio event loop.  A task runs without             *)
(* interruption from the point where the loop resumes it to its next real  *)
(* suspension point; the model keeps the loop's FIFO ready queue (ready)   *)
(* and the task that is executing (running).  The real suspension points   *)
(* are: the aiohttp request of a probe, asyncio.gather, asyncio.sleep.     *)
(* requests.get and every sqlite3 call are blocking calls: they do not     *)
(* suspend, nothing else runs while they are in progress.  Awaiting a      *)
(* coroutine of database.py runs it inline (it contains no suspension).    *)
(* pool_lock is never contended in this program (no holder ever suspends), *)
(* so `async with pool_lock` acquires without suspending.                  *)
(***************************************************************************)
EXTENDS Integers, Sequences, FiniteSets, TLC

(***************************************************************************)
(* Bounds of the model.                                                    *)
(***************************************************************************)
\* settings.PROXY_HISTORY_WINDOW_SIZE, scaled down from its default of 12
PROXY_HISTORY_WINDOW_SIZE == 2
\* number of test cycles background_tester is followed for
MaxCycles == 2
\* number of list fetches background_worker is followed for
MaxPulls == 2
\* number of sqlite3 operations that may raise in one behaviour
MaxDbFailures == 1
\* number of record_test calls followed on the single record of SpecRecord
MaxCalls == 4
\* largest `limit` a request is followed with (the handlers accept 1 to 20)
MaxLimit == 2

W == PROXY_HISTORY_WINDOW_SIZE

\* an identity ProxyConnector.from_url accepts, and one it rejects with ValueError
\* (pull_source_proxies formats whatever ip and port the fetched list holds)
GoodUrl == "socks5://1.2.3.4:1080"
BadUrl == "socks4://5.6.7.8:None"
\* an identity of earlier fetches, which the fetches followed here do not bring
OtherUrl == "http://9.10.11.12:8080"
GoodUrls == {GoodUrl, OtherUrl}
BadUrls == {BadUrl}
Urls == GoodUrls \cup BadUrls
\* the identities the source lists hold while background_worker is followed
SourceUrls == {GoodUrl, BadUrl}
NoUrl == "no-url"

\* Proxy objects live on a heap; an id is free again once nothing refers to it
ObjIds == 1 .. (2 * Cardinality(Urls))
NoObj == 0

VARIABLES
    PROXY_POOL,         \* main.PROXY_POOL: url -> object id, NoObj when absent
    objs,               \* the heap: object id -> Proxy object, or NoProxy
    pool_lock,          \* main.pool_lock: the task holding it, or NoTask
    db,                 \* table proxies: url -> row, or NoRow
    ready,              \* the event loop's FIFO queue of runnable tasks
    running,            \* the task the loop is executing, or NoTask
    pc,                 \* position of lifespan, worker, tester
    probe,              \* position of the probe task of each (object, mode)
    success,            \* local `success` of each probe task
    rows,               \* load_proxies_from_db: urls of the rows still to replay
    loaded_count,       \* load_proxies_from_db: loaded_count
    new_urls,           \* pull_source_proxies: urls still to merge
    added_count,        \* pull_source_proxies: added_count
    save_tasks,         \* pull_source_proxies: tasks (objects) gather still runs
    save_raised,        \* a save task of that gather raised
    proxies_to_test,    \* test_all_proxies: the snapshot (object ids)
    dead_proxies_urls,  \* cleanup_dead_proxies: dead_proxies_urls
    db_cleanup_tasks,   \* cleanup_dead_proxies: delete tasks gather still runs
    delete_raised,      \* a delete task of that gather raised
    cycle,              \* test cycles completed
    pulls,              \* list fetches done
    dbFailures,         \* sqlite3 operations that raised so far
    recorded,           \* SpecRecord: every outcome handed to the record, per mode
    life,               \* history variable: origin of each record, the test cycles
                        \* that probed it, the outcomes its probes recorded
    query               \* the request handler of /proxies or /proxies/healthy

vars == << PROXY_POOL, objs, pool_lock, db, ready, running, pc, probe, success,
           rows, loaded_count, new_urls, added_count, save_tasks, save_raised,
           proxies_to_test, dead_proxies_urls, db_cleanup_tasks, delete_raised,
           cycle, pulls, dbFailures, recorded, life, query >>

poolVars == << PROXY_POOL, objs >>
loadVars == << rows, loaded_count >>
pullVars == << new_urls, added_count, save_tasks, save_raised >>
testVars == << proxies_to_test, probe, success >>
cleanVars == << dead_proxies_urls, db_cleanup_tasks, delete_raised >>

(***************************************************************************)
(* Tasks.                                                                  *)
(***************************************************************************)
Task(k, o, s, u) == [kind |-> k, obj |-> o, ssl |-> s, url |-> u]
NoTask == Task("none", NoObj, FALSE, NoUrl)
Lifespan == Task("lifespan", NoObj, FALSE, NoUrl)
Worker == Task("worker", NoObj, FALSE, NoUrl)
Tester == Task("tester", NoObj, FALSE, NoUrl)
ProbeTask(o, s) == Task("probe", o, s, NoUrl)
SaveTask(o) == Task("save", o, FALSE, NoUrl)
DeleteTask(u) == Task("delete", NoObj, FALSE, u)
QueryTask == Task("query", NoObj, FALSE, NoUrl)

\* the loop hands the processor to the task at the head of the ready queue
Dispatch(t) ==
    /\ running = NoTask
    /\ ready # << >>
    /\ Head(ready) = t
    /\ ready' = Tail(ready)

(***************************************************************************)
(* class Proxy (src/main.py).                                              *)
(***************************************************************************)
NoProxy == [url |-> NoUrl, ssl_enabled_history |-> << >>, ssl_disabled_history |-> << >>]

\* Proxy.__init__: two empty deques of maxlen W
Proxy(url) == [url |-> url, ssl_enabled_history |-> << >>, ssl_disabled_history |-> << >>]

\* faulty variant: a plain list, which never drops an entry
deque_append_unbounded(h, x) == Append(h, x)

\* faulty variant: a full window takes no new entry
deque_append_keep_oldest(h, x) == IF Len(h) >= W THEN h ELSE Append(h, x)

\* deque(maxlen=W).append: a full deque drops its oldest entry
deque_append(h, x) == IF Len(h) >= W THEN Append(Tail(h), x) ELSE Append(h, x)

\* deque(maxlen=W).extend: append the elements one by one
RECURSIVE deque_extend(_, _)
deque_extend(h, xs) ==
    IF xs = << >> THEN h ELSE deque_extend(deque_append(h, Head(xs)), Tail(xs))

\* faulty variant: the outcome goes to both histories
record_test_both(p, succ, ssl_enabled) ==
    [p EXCEPT !.ssl_enabled_history = deque_append(@, succ),
              !.ssl_disabled_history = deque_append(@, succ)]

\* Proxy.record_test
record_test(p, succ, ssl_enabled) ==
    IF ssl_enabled
    THEN [p EXCEPT !.ssl_enabled_history = deque_append(@, succ)]
    ELSE [p EXCEPT !.ssl_disabled_history = deque_append(@, succ)]

\* any(history)
RECURSIVE any(_)
any(h) == IF h = << >> THEN FALSE ELSE IF Head(h) THEN TRUE ELSE any(Tail(h))

\* Proxy.is_valid
is_valid(p, ssl_enabled) ==
    any(IF ssl_enabled THEN p.ssl_enabled_history ELSE p.ssl_disabled_history)

\* faulty variant: one dead mode is enough (`or` for `and`)
should_be_removed_either(p) ==
    \/ Len(p.ssl_enabled_history) = W /\ ~is_valid(p, TRUE)
    \/ Len(p.ssl_disabled_history) = W /\ ~is_valid(p, FALSE)

\* Proxy.should_be_removed
should_be_removed(p) ==
    LET ssl_enabled_full_and_failed ==
            Len(p.ssl_enabled_history) = W /\ ~is_valid(p, TRUE)
        ssl_disabled_full_and_failed ==
            Len(p.ssl_disabled_history) = W /\ ~is_valid(p, FALSE)
    IN  ssl_enabled_full_and_failed /\ ssl_disabled_full_and_failed

\* sum(history): the number of true entries
RECURSIVE sum(_)
sum(h) == IF h = << >> THEN 0 ELSE (IF Head(h) THEN 1 ELSE 0) + sum(Tail(h))

\* a stability is the quotient of two integers: << numerator, denominator >>
\* (for histories of up to 12 entries the float quotients compare as these do)
ratio_ge(a, b) == a[1] * b[2] >= b[1] * a[2]
ratio_eq(a, b) == a[1] * b[2] = b[1] * a[2]

\* faulty variant: the share of the whole window, not of the entries recorded
stability_of_window(h) == IF h = << >> THEN << 0, 1 >> ELSE << sum(h), W >>

\* Proxy.ssl_enabled_stability, Proxy.ssl_disabled_stability
stability(h) == IF h = << >> THEN << 0, 1 >> ELSE << sum(h), Len(h) >>

\* Proxy.get_stability
get_stability(p, ssl_enabled) ==
    IF ssl_enabled THEN stability(p.ssl_enabled_history)
    ELSE stability(p.ssl_disabled_history)

(***************************************************************************)
(* The history columns (src/database.py): JSON text, as a token sequence.  *)
(***************************************************************************)
RECURSIVE json_elements(_)
json_elements(h) ==
    IF h = << >> THEN << >>
    ELSE LET tok == IF Head(h) THEN "true" ELSE "false"
         IN  IF Len(h) = 1 THEN << tok >>
             ELSE << tok, ", " >> \o json_elements(Tail(h))

\* json.dumps(list(history))
json_dumps(h) == << "[" >> \o json_elements(h) \o << "]" >>

JsonError == [ok |-> FALSE, val |-> << >>]
JsonValue(v) == [ok |-> TRUE, val |-> v]

RECURSIVE json_parse_elements(_)
json_parse_elements(s) ==
    IF s = << >> \/ Head(s) \notin {"true", "false"} THEN JsonError
    ELSE IF Len(s) = 1 THEN JsonValue(<< Head(s) = "true" >>)
    ELSE IF s[2] # ", " THEN JsonError
    ELSE LET rest == json_parse_elements(SubSeq(s, 3, Len(s)))
         IN  IF rest.ok THEN JsonValue(<< Head(s) = "true" >> \o rest.val)
             ELSE JsonError

\* json.loads of a history column, as far as deque.extend can take the result:
\* anything but a list of booleans raises (JSONDecodeError, or TypeError in extend)
json_loads(s) ==
    IF Len(s) < 2 \/ s[1] # "[" \/ s[Len(s)] # "]" THEN JsonError
    ELSE IF Len(s) = 2 THEN JsonValue(<< >>)
    ELSE json_parse_elements(SubSeq(s, 2, Len(s) - 1))

NoRow == [ssl_enabled_history |-> << "none" >>, ssl_disabled_history |-> << "none" >>]
Row(e, d) == [ssl_enabled_history |-> e, ssl_disabled_history |-> d]

\* the row save_proxy_to_db writes for a Proxy object
row_of(p) == Row(json_dumps(p.ssl_enabled_history), json_dumps(p.ssl_disabled_history))


(***************************************************************************)
(* Helpers over the state.                                                 *)
(***************************************************************************)
Range(q) == {q[i] : i \in DOMAIN q}

RECURSIVE Without(_, _)
Without(q, x) ==
    IF q = << >> THEN << >>
    ELSE IF Head(q) = x THEN Without(Tail(q), x)
    ELSE << Head(q) >> \o Without(Tail(q), x)

RECURSIVE SeqOfSet(_)
SeqOfSet(S) ==
    IF S = {} THEN << >>
    ELSE LET x == CHOOSE y \in S : TRUE IN << x >> \o SeqOfSet(S \ {x})

SlotOf == CHOOSE f \in [Urls -> 1 .. Cardinality(Urls)] : \A u, v \in Urls : u # v => f[u] # f[v]

\* the address Proxy(url) is allocated at: any free one
NewObj(url) ==
    IF objs[SlotOf[url]] = NoProxy THEN SlotOf[url]
    ELSE CHOOSE o \in ObjIds : /\ objs[o] = NoProxy
                               /\ \A o2 \in ObjIds : objs[o2] = NoProxy => o <= o2

\* the records of the pool
Records == {PROXY_POOL[u] : u \in Urls} \ {NoObj}

ProbeSettled(st) == st \in {"none", "done", "raised"}

\* an object nothing refers to any more is freed (reference counting)
Collect(os, pool, saves, pr) ==
    [o \in ObjIds |->
        IF \/ \E u \in Urls : pool[u] = o
           \/ o \in Range(saves)
           \/ \E s \in BOOLEAN : ~ProbeSettled(pr[o, s])
        THEN os[o] ELSE NoProxy]

\* what is remembered about a record: how it was created ("ingested" by
\* pull_source_proxies, "replayed" by load_proxies_from_db), the number of test
\* cycles that launched its probes, the number of record_test calls of its probes
NoLife == [origin |-> "none", cycles |-> 0, ssl_enabled |-> 0, ssl_disabled |-> 0]
NewLife(origin) == [origin |-> origin, cycles |-> 0, ssl_enabled |-> 0, ssl_disabled |-> 0]

\* nothing is remembered about an object that has been freed
Forget(lf, os) == [o \in ObjIds |-> IF os[o] = NoProxy THEN NoLife ELSE lf[o]]

\* no request is being served
QueryOff == [pc |-> "off", ssl_enabled |-> FALSE, min_stability |-> << 0, 1 >>,
             limit |-> 0, result |-> << >>]

\* sqlite3 may raise on any operation (budgeted by MaxDbFailures)
DbRaises == IF dbFailures < MaxDbFailures THEN {FALSE, TRUE} ELSE {FALSE}

(***************************************************************************)
(* Initial state: the process starts with the table left by earlier runs.  *)
(***************************************************************************)
AllFalse(n) == [i \in 1 .. n |-> FALSE]

EmptyDb == [u \in Urls |-> NoRow]

InitialDbs ==
    { EmptyDb,
      \* a record one failing probe away from removal
      [EmptyDb EXCEPT ![GoodUrl] = Row(json_dumps(AllFalse(W)), json_dumps(AllFalse(W - 1)))],
      \* a row written under a larger window size, and a row saved at ingestion
      [EmptyDb EXCEPT ![GoodUrl] = Row(json_dumps(<< TRUE >> \o AllFalse(W)), json_dumps(<< >>)),
                      ![BadUrl] = Row(json_dumps(<< >>), json_dumps(<< >>))],
      \* a row whose ssl_disabled_history column is truncated text, and a sound row
      [EmptyDb EXCEPT ![GoodUrl] = Row(json_dumps(<< TRUE >>), << "[", "false" >>),
                      ![BadUrl] = Row(json_dumps(<< >>), json_dumps(<< >>))] }

\* no task has started: the lock is free, every local is at its initial value
InitLocals ==
    /\ pool_lock = NoTask
    /\ ready = << >>
    /\ probe = [o \in ObjIds, s \in BOOLEAN |-> "none"]
    /\ success = [o \in ObjIds, s \in BOOLEAN |-> FALSE]
    /\ rows = {}
    /\ loaded_count = 0
    /\ new_urls = {}
    /\ added_count = 0
    /\ save_tasks = << >>
    /\ save_raised = FALSE
    /\ proxies_to_test = {}
    /\ dead_proxies_urls = {}
    /\ db_cleanup_tasks = << >>
    /\ delete_raised = FALSE
    /\ dbFailures = 0

\* PROXY_POOL: Dict[str, Proxy] = {}
InitCommon ==
    /\ PROXY_POOL = [u \in Urls |-> NoObj]
    /\ objs = [o \in ObjIds |-> NoProxy]
    /\ life = [o \in ObjIds |-> NoLife]
    /\ cycle = 0
    /\ pulls = 0
    /\ InitLocals

Init ==
    /\ InitCommon
    /\ db \in InitialDbs
    /\ running = Lifespan
    /\ pc = [lifespan |-> "select", worker |-> "unborn", tester |-> "unborn"]
    /\ recorded = [ssl_enabled_history |-> << >>, ssl_disabled_history |-> << >>]
    /\ query = QueryOff

(***************************************************************************)
(* lifespan / database.load_proxies_from_db                                *)
(***************************************************************************)
\* cursor.execute(SELECT ...); rows = cursor.fetchall()
LoadSelect ==
    /\ running = Lifespan /\ pc.lifespan = "select"
    /\ \E raises \in DbRaises :
         IF raises
         THEN /\ pc' = [pc EXCEPT !.lifespan = "failed"]
              /\ running' = NoTask
              /\ dbFailures' = dbFailures + 1
              /\ rows' = rows
         ELSE /\ pc' = [pc EXCEPT !.lifespan = "acquire"]
              /\ rows' = {u \in Urls : db[u] # NoRow}
              /\ UNCHANGED << running, dbFailures >>
    /\ UNCHANGED << poolVars, pool_lock, db, ready, loaded_count, pullVars, testVars,
                    cleanVars, cycle, pulls, recorded, life, query >>

\* async with pool_lock: loaded_count = 0
LoadAcquire ==
    /\ running = Lifespan /\ pc.lifespan = "acquire"
    /\ pool_lock = NoTask
    /\ pool_lock' = Lifespan
    /\ loaded_count' = 0
    /\ pc' = [pc EXCEPT !.lifespan = "rows"]
    /\ UNCHANGED << poolVars, db, ready, running, rows, pullVars, testVars, cleanVars,
                    cycle, pulls, dbFailures, recorded, life, query >>

\* the Proxy a row is replayed into: None when a column does not load
replay_row(url, row) ==
    LET e == json_loads(row.ssl_enabled_history)
        d == json_loads(row.ssl_disabled_history)
    IN  IF e.ok /\ d.ok
        THEN [ok |-> TRUE,
              proxy |-> [url |-> url,
                         ssl_enabled_history |-> deque_extend(<< >>, e.val),
                         ssl_disabled_history |-> deque_extend(<< >>, d.val)]]
        ELSE [ok |-> FALSE, proxy |-> NoProxy]

\* one iteration of `for row in rows`; an exception leaves the function through
\* both with blocks (the lock is released) and fails the application startup
LoadRow(url) ==
    /\ running = Lifespan /\ pc.lifespan = "rows"
    /\ pool_lock = Lifespan
    /\ url \in rows
    /\ IF PROXY_POOL[url] # NoObj
       THEN /\ rows' = rows \ {url}
            /\ UNCHANGED << poolVars, pool_lock, running, pc, loaded_count, life >>
       ELSE LET r == replay_row(url, db[url])
                o == NewObj(url)
            IN  IF r.ok
                THEN /\ objs' = [objs EXCEPT ![o] = r.proxy]
                     /\ PROXY_POOL' = [PROXY_POOL EXCEPT ![url] = o]
                     /\ life' = [life EXCEPT ![o] = NewLife("replayed")]
                     /\ loaded_count' = loaded_count + 1
                     /\ rows' = rows \ {url}
                     /\ UNCHANGED << pool_lock, running, pc >>
                ELSE /\ pool_lock' = NoTask
                     /\ pc' = [pc EXCEPT !.lifespan = "failed"]
                     /\ running' = NoTask
                     /\ UNCHANGED << poolVars, rows, loaded_count, life >>
    /\ UNCHANGED << db, ready, pullVars, testVars, cleanVars, cycle, pulls, dbFailures,
                    recorded, query >>

\* end of `async with pool_lock`, of `with get_db_connection()`, and the log line
LoadRelease ==
    /\ running = Lifespan /\ pc.lifespan = "rows"
    /\ pool_lock = Lifespan
    /\ rows = {}
    /\ pool_lock' = NoTask
    /\ pc' = [pc EXCEPT !.lifespan = "loaded"]
    /\ UNCHANGED << poolVars, db, ready, running, loadVars, pullVars, testVars, cleanVars,
                    cycle, pulls, dbFailures, recorded, life, query >>

\* asyncio.create_task(background_worker()); create_task(background_tester()); yield
LifespanStart ==
    /\ running = Lifespan /\ pc.lifespan = "loaded"
    /\ ready' = ready \o << Worker, Tester >>
    /\ pc' = [lifespan |-> "serving", worker |-> "start", tester |-> "start"]
    /\ running' = NoTask
    /\ UNCHANGED << poolVars, pool_lock, db, loadVars, pullVars, testVars, cleanVars,
                    cycle, pulls, dbFailures, recorded, life, query >>


(***************************************************************************)
(* background_worker / pull_source_proxies                                 *)
(***************************************************************************)
\* the loop resumes background_worker: pull_source_proxies() starts its requests
PullStart ==
    /\ Dispatch(Worker) /\ pc.worker = "start"
    /\ running' = Worker
    /\ pc' = [pc EXCEPT !.worker = "fetch"]
    /\ pulls' = pulls + 1
    /\ UNCHANGED << poolVars, pool_lock, db, loadVars, pullVars, testVars, cleanVars,
                    cycle, dbFailures, recorded, life, query >>

\* the blocking requests.get loop has produced new_urls (errors leave it smaller);
\* `if new_urls:` is false: the function returns and the worker sleeps
PullFetch(urls) ==
    /\ running = Worker /\ pc.worker = "fetch"
    /\ new_urls' = urls
    /\ IF urls = {}
       THEN /\ pc' = [pc EXCEPT !.worker = "sleep"]
            /\ running' = NoTask
       ELSE /\ pc' = [pc EXCEPT !.worker = "acquire"]
            /\ running' = running
    /\ UNCHANGED << poolVars, pool_lock, db, ready, loadVars, added_count, save_tasks,
                    save_raised, testVars, cleanVars, cycle, pulls, dbFailures, recorded, life, query >>

\* added_count = 0; tasks = []; async with pool_lock:
PullAcquire ==
    /\ running = Worker /\ pc.worker = "acquire"
    /\ pool_lock = NoTask
    /\ pool_lock' = Worker
    /\ added_count' = 0
    /\ save_tasks' = << >>
    /\ save_raised' = FALSE
    /\ pc' = [pc EXCEPT !.worker = "merge"]
    /\ UNCHANGED << poolVars, db, ready, running, loadVars, new_urls, testVars, cleanVars,
                    cycle, pulls, dbFailures, recorded, life, query >>

\* faulty variant: the `if url not in PROXY_POOL` test is missing
PullMergeOverwrite(url) ==
    /\ running = Worker /\ pc.worker = "merge"
    /\ url \in new_urls
    /\ new_urls' = new_urls \ {url}
    /\ LET o == NewObj(url)
       IN  /\ objs' = [objs EXCEPT ![o] = Proxy(url)]
           /\ PROXY_POOL' = [PROXY_POOL EXCEPT ![url] = o]
           /\ save_tasks' = Append(save_tasks, o)
           /\ added_count' = added_count + 1
           /\ life' = [life EXCEPT ![o] = NewLife("ingested")]
    /\ UNCHANGED << pool_lock, db, ready, running, pc, loadVars, save_raised, testVars,
                    cleanVars, cycle, pulls, dbFailures, recorded, query >>

\* faulty variant: a new record takes the histories of the row its identity
\* still has in the table
PullMergeRestoring(url) ==
    /\ running = Worker /\ pc.worker = "merge"
    /\ url \in new_urls
    /\ new_urls' = new_urls \ {url}
    /\ IF PROXY_POOL[url] = NoObj
       THEN LET o == NewObj(url)
                r == replay_row(url, db[url])
            IN  /\ objs' = [objs EXCEPT ![o] = IF db[url] # NoRow /\ r.ok THEN r.proxy
                                               ELSE Proxy(url)]
                /\ PROXY_POOL' = [PROXY_POOL EXCEPT ![url] = o]
                /\ save_tasks' = Append(save_tasks, o)
                /\ added_count' = added_count + 1
                /\ life' = [life EXCEPT ![o] = NewLife("ingested")]
       ELSE UNCHANGED << poolVars, save_tasks, added_count, life >>
    /\ UNCHANGED << pool_lock, db, ready, running, pc, loadVars, save_raised, testVars,
                    cleanVars, cycle, pulls, dbFailures, recorded, query >>

\* one iteration of `for url in new_urls` (a set: any order)
PullMerge(url) ==
    /\ running = Worker /\ pc.worker = "merge"
    /\ url \in new_urls
    /\ new_urls' = new_urls \ {url}
    /\ IF PROXY_POOL[url] = NoObj
       THEN LET o == NewObj(url)
            IN  /\ objs' = [objs EXCEPT ![o] = Proxy(url)]
                /\ PROXY_POOL' = [PROXY_POOL EXCEPT ![url] = o]
                /\ save_tasks' = Append(save_tasks, o)
                /\ added_count' = added_count + 1
                /\ life' = [life EXCEPT ![o] = NewLife("ingested")]
       ELSE UNCHANGED << poolVars, save_tasks, added_count, life >>
    /\ UNCHANGED << pool_lock, db, ready, running, pc, loadVars, save_raised, testVars,
                    cleanVars, cycle, pulls, dbFailures, recorded, query >>

\* faulty variant: the gather is indented into the `async with pool_lock` block
PullReleaseAfterGather ==
    /\ running = Worker /\ pc.worker = "merge"
    /\ new_urls = {}
    /\ running' = NoTask
    /\ IF save_tasks # << >>
       THEN /\ ready' = ready \o [i \in 1 .. Len(save_tasks) |-> SaveTask(save_tasks[i])]
            /\ pc' = [pc EXCEPT !.worker = "gather"]
            /\ pool_lock' = pool_lock
       ELSE /\ ready' = ready
            /\ pc' = [pc EXCEPT !.worker = "sleep"]
            /\ pool_lock' = NoTask
    /\ UNCHANGED << poolVars, db, loadVars, pullVars, testVars, cleanVars, cycle, pulls,
                    dbFailures, recorded, life, query >>

\* end of `async with pool_lock`; `if tasks: await asyncio.gather(*tasks)` makes a
\* task of every save coroutine and suspends; without tasks the function logs and
\* returns, and the worker sleeps
PullRelease ==
    /\ running = Worker /\ pc.worker = "merge"
    /\ new_urls = {}
    /\ pool_lock' = NoTask
    /\ running' = NoTask
    /\ IF save_tasks # << >>
       THEN /\ ready' = ready \o [i \in 1 .. Len(save_tasks) |-> SaveTask(save_tasks[i])]
            /\ pc' = [pc EXCEPT !.worker = "gather"]
       ELSE /\ ready' = ready
            /\ pc' = [pc EXCEPT !.worker = "sleep"]
    /\ UNCHANGED << poolVars, db, loadVars, pullVars, testVars, cleanVars, cycle, pulls,
                    dbFailures, recorded, life, query >>

\* database.save_proxy_to_db(proxy) run as a task of the worker's gather; the last
\* one to finish makes the worker runnable again
RunSaveTask(o) ==
    /\ running = NoTask /\ ready # << >> /\ Head(ready) = SaveTask(o)
    /\ \E raises \in DbRaises :
         IF raises
         THEN /\ save_raised' = TRUE
              /\ dbFailures' = dbFailures + 1
              /\ db' = db
         ELSE /\ db' = [db EXCEPT ![objs[o].url] = row_of(objs[o])]
              /\ UNCHANGED << save_raised, dbFailures >>
    /\ save_tasks' = Without(save_tasks, o)
    /\ ready' = IF save_tasks' = << >> THEN Append(Tail(ready), Worker) ELSE Tail(ready)
    /\ objs' = Collect(objs, PROXY_POOL, save_tasks', probe)
    /\ life' = Forget(life, objs')
    /\ UNCHANGED << PROXY_POOL, pool_lock, running, pc, loadVars, new_urls, added_count,
                    testVars, cleanVars, cycle, pulls, recorded, query >>

\* gather returns, or raises the first exception of its tasks: nothing catches it
\* in pull_source_proxies or background_worker, so the worker task ends
PullDone ==
    /\ Dispatch(Worker) /\ pc.worker = "gather"
    /\ pc' = [pc EXCEPT !.worker = IF save_raised THEN "crashed" ELSE "sleep"]
    /\ UNCHANGED << poolVars, pool_lock, db, running, loadVars, pullVars, testVars,
                    cleanVars, cycle, pulls, dbFailures, recorded, life, query >>

\* asyncio.sleep(settings.SOURCE_PULL_INTERVAL) is over
WorkerTimer ==
    /\ running = NoTask /\ pc.worker = "sleep"
    /\ pulls < MaxPulls
    /\ ready' = Append(ready, Worker)
    /\ pc' = [pc EXCEPT !.worker = "start"]
    /\ UNCHANGED << poolVars, pool_lock, db, running, loadVars, pullVars, testVars,
                    cleanVars, cycle, pulls, dbFailures, recorded, life, query >>


(***************************************************************************)
(* background_tester / test_all_proxies / test_single_proxy                *)
(***************************************************************************)
\* the loop resumes background_tester: test_all_proxies() enters `async with pool_lock`
TestAllStart ==
    /\ Dispatch(Tester) /\ pc.tester = "start"
    /\ pool_lock = NoTask
    /\ pool_lock' = Tester
    /\ running' = Tester
    /\ pc' = [pc EXCEPT !.tester = "snapshot"]
    /\ UNCHANGED << poolVars, db, loadVars, pullVars, testVars, cleanVars, cycle, pulls,
                    dbFailures, recorded, life, query >>

\* proxies_to_test = list(PROXY_POOL.values()); end of `async with pool_lock`
TestAllSnapshot ==
    /\ running = Tester /\ pc.tester = "snapshot"
    /\ proxies_to_test' = {PROXY_POOL[u] : u \in Urls} \ {NoObj}
    /\ pool_lock' = NoTask
    /\ pc' = [pc EXCEPT !.tester = "launch"]
    /\ UNCHANGED << poolVars, db, ready, running, loadVars, pullVars, probe, success,
                    cleanVars, cycle, pulls, dbFailures, recorded, life, query >>

\* the tasks list of test_all_proxies: ssl_enabled=True for every proxy, then False
probe_tasks(snapshot) ==
    LET ps == SeqOfSet(snapshot)
    IN  [i \in 1 .. Len(ps) |-> ProbeTask(ps[i], TRUE)]
        \o [i \in 1 .. Len(ps) |-> ProbeTask(ps[i], FALSE)]

\* faulty variant: gather without return_exceptions=True ends with the first exception
gather_probes_first_exception(pr) ==
    \/ \E o \in ObjIds, s \in BOOLEAN : pr[o, s] = "raised"
    \/ \A o \in ObjIds, s \in BOOLEAN : ProbeSettled(pr[o, s])

\* asyncio.gather(*tasks, return_exceptions=True) is done once every task has
\* finished, by returning or by raising
gather_probes_done(pr) == \A o \in ObjIds, s \in BOOLEAN : ProbeSettled(pr[o, s])

\* faulty variant: the gather of the probes is not awaited, test_all_proxies
\* returns at once and cleanup starts
TestAllGatherNoAwait ==
    /\ running = Tester /\ pc.tester = "launch"
    /\ IF proxies_to_test = {}
       THEN UNCHANGED << ready, probe, success >>
       ELSE /\ probe' = [o \in ObjIds, s \in BOOLEAN |->
                            IF o \in proxies_to_test THEN "created" ELSE "none"]
            /\ success' = [o \in ObjIds, s \in BOOLEAN |-> FALSE]
            /\ ready' = ready \o probe_tasks(proxies_to_test)
    /\ life' = [o \in ObjIds |-> IF o \in proxies_to_test
                                  THEN [life[o] EXCEPT !.cycles = @ + 1] ELSE life[o]]
    /\ pc' = [pc EXCEPT !.tester = "cleanup"]
    /\ UNCHANGED << poolVars, pool_lock, db, running, loadVars, pullVars, proxies_to_test,
                    cleanVars, cycle, pulls, dbFailures, recorded, query >>

\* await asyncio.gather(*tasks, return_exceptions=True): a task per coroutine, and
\* the tester suspends; with no task at all gather is done at once and the tester
\* goes on
TestAllGather ==
    /\ running = Tester /\ pc.tester = "launch"
    /\ IF proxies_to_test = {}
       THEN /\ pc' = [pc EXCEPT !.tester = "cleanup"]
            /\ UNCHANGED << ready, running, probe, success >>
       ELSE /\ probe' = [o \in ObjIds, s \in BOOLEAN |->
                            IF o \in proxies_to_test THEN "created" ELSE "none"]
            /\ success' = [o \in ObjIds, s \in BOOLEAN |-> FALSE]
            /\ ready' = ready \o probe_tasks(proxies_to_test)
            /\ running' = NoTask
            /\ pc' = [pc EXCEPT !.tester = "wait"]
    /\ life' = [o \in ObjIds |-> IF o \in proxies_to_test
                                  THEN [life[o] EXCEPT !.cycles = @ + 1] ELSE life[o]]
    /\ UNCHANGED << poolVars, pool_lock, db, loadVars, pullVars, proxies_to_test,
                    cleanVars, cycle, pulls, dbFailures, recorded, query >>

\* the ready queue after a probe task has ended: the gather it belongs to wakes the
\* tester when it is done
AfterProbe(q, pr) ==
    IF pc.tester = "wait" /\ gather_probes_done(pr) /\ ~gather_probes_done(probe)
    THEN Append(q, Tester) ELSE q

\* test_single_proxy up to its first suspension: ProxyConnector.from_url(proxy.url)
\* is outside the try block and raises ValueError on a url it cannot parse;
\* otherwise success = False and the request is sent
ProbeStart(o, s) ==
    /\ Dispatch(ProbeTask(o, s)) /\ probe[o, s] = "created"
    /\ probe' = [probe EXCEPT ![o, s] =
                    IF objs[o].url \in BadUrls THEN "raised" ELSE "request"]
    /\ ready' = AfterProbe(Tail(ready), probe')
    /\ objs' = Collect(objs, PROXY_POOL, save_tasks, probe')
    /\ life' = Forget(life, objs')
    /\ UNCHANGED << PROXY_POOL, pool_lock, db, running, pc, loadVars, pullVars,
                    proxies_to_test, success, cleanVars, cycle, pulls, dbFailures,
                    recorded, query >>

\* what the request can come to: an exception (connect error, timeout, TLS failure,
\* ...), or a response with a status and a body
Responses == [raised : BOOLEAN, status_200 : BOOLEAN, marker_in_text : BOOLEAN]

\* success = response.status == 200 and SUCCESS_MARKER in await response.text();
\* except Exception: success = False
probe_success(r) == IF r.raised THEN FALSE ELSE r.status_200 /\ r.marker_in_text

\* the request of a probe ends: the probe task becomes runnable
ProbeResponse(o, s, r) ==
    /\ running = NoTask /\ probe[o, s] = "request"
    /\ success' = [success EXCEPT ![o, s] = probe_success(r)]
    /\ probe' = [probe EXCEPT ![o, s] = "response"]
    /\ ready' = Append(ready, ProbeTask(o, s))
    /\ UNCHANGED << poolVars, pool_lock, db, running, pc, loadVars, pullVars,
                    proxies_to_test, cleanVars, cycle, pulls, dbFailures, recorded, life, query >>

\* faulty variant: the `async with pool_lock` around record_test is missing
ProbeAcquireNoLock(o, s) ==
    /\ Dispatch(ProbeTask(o, s)) /\ probe[o, s] = "response"
    /\ running' = ProbeTask(o, s)
    /\ probe' = [probe EXCEPT ![o, s] = "record"]
    /\ UNCHANGED << poolVars, pool_lock, db, pc, loadVars, pullVars, proxies_to_test,
                    success, cleanVars, cycle, pulls, dbFailures, recorded, life, query >>

\* async with pool_lock:
ProbeAcquire(o, s) ==
    /\ Dispatch(ProbeTask(o, s)) /\ probe[o, s] = "response"
    /\ pool_lock = NoTask
    /\ pool_lock' = ProbeTask(o, s)
    /\ running' = ProbeTask(o, s)
    /\ probe' = [probe EXCEPT ![o, s] = "record"]
    /\ UNCHANGED << poolVars, db, pc, loadVars, pullVars, proxies_to_test, success,
                    cleanVars, cycle, pulls, dbFailures, recorded, life, query >>

\* proxy.record_test(success, ssl_enabled=ssl_enabled)
ProbeRecord(o, s) ==
    /\ running = ProbeTask(o, s) /\ probe[o, s] = "record"
    /\ objs' = [objs EXCEPT ![o] = record_test(@, success[o, s], s)]
    /\ probe' = [probe EXCEPT ![o, s] = "save"]
    /\ life' = IF s THEN [life EXCEPT ![o].ssl_enabled = @ + 1]
                ELSE [life EXCEPT ![o].ssl_disabled = @ + 1]
    /\ UNCHANGED << PROXY_POOL, pool_lock, db, ready, running, pc, loadVars, pullVars,
                    proxies_to_test, success, cleanVars, cycle, pulls, dbFailures,
                    recorded, query >>

\* faulty variant: the lock is taken with acquire() and released with release()
\* after the save, so an exception of the save leaves it locked
ProbeSaveLeak(o, s) ==
    /\ running = ProbeTask(o, s) /\ probe[o, s] = "save"
    /\ \E raises \in DbRaises :
         IF raises
         THEN /\ dbFailures' = dbFailures + 1
              /\ running' = NoTask
              /\ probe' = [probe EXCEPT ![o, s] = "raised"]
              /\ ready' = AfterProbe(ready, probe')
              /\ objs' = Collect(objs, PROXY_POOL, save_tasks, probe')
              /\ UNCHANGED << db, pool_lock >>
         ELSE /\ db' = [db EXCEPT ![objs[o].url] = row_of(objs[o])]
              /\ probe' = [probe EXCEPT ![o, s] = "release"]
              /\ UNCHANGED << objs, pool_lock, ready, running, dbFailures >>
    /\ life' = Forget(life, objs')
    /\ UNCHANGED << PROXY_POOL, pc, loadVars, pullVars, proxies_to_test, success,
                    cleanVars, cycle, pulls, recorded, query >>

\* await database.save_proxy_to_db(proxy), inside `async with pool_lock`; when it
\* raises, the exception releases the lock and ends the probe task
ProbeSave(o, s) ==
    /\ running = ProbeTask(o, s) /\ probe[o, s] = "save"
    /\ \E raises \in DbRaises :
         IF raises
         THEN /\ dbFailures' = dbFailures + 1
              /\ pool_lock' = NoTask
              /\ running' = NoTask
              /\ probe' = [probe EXCEPT ![o, s] = "raised"]
              /\ ready' = AfterProbe(ready, probe')
              /\ objs' = Collect(objs, PROXY_POOL, save_tasks, probe')
              /\ db' = db
         ELSE /\ db' = [db EXCEPT ![objs[o].url] = row_of(objs[o])]
              /\ probe' = [probe EXCEPT ![o, s] = "release"]
              /\ UNCHANGED << objs, pool_lock, ready, running, dbFailures >>
    /\ life' = Forget(life, objs')
    /\ UNCHANGED << PROXY_POOL, pc, loadVars, pullVars, proxies_to_test, success,
                    cleanVars, cycle, pulls, recorded, query >>

\* end of `async with pool_lock`: test_single_proxy returns
ProbeRelease(o, s) ==
    /\ running = ProbeTask(o, s) /\ probe[o, s] = "release"
    /\ pool_lock' = NoTask
    /\ running' = NoTask
    /\ probe' = [probe EXCEPT ![o, s] = "done"]
    /\ ready' = AfterProbe(ready, probe')
    /\ objs' = Collect(objs, PROXY_POOL, save_tasks, probe')
    /\ life' = Forget(life, objs')
    /\ UNCHANGED << PROXY_POOL, db, pc, loadVars, pullVars, proxies_to_test, success,
                    cleanVars, cycle, pulls, dbFailures, recorded, query >>

\* gather has returned the results (exceptions among them, unread): test_all_proxies
\* logs and returns, background_tester calls cleanup_dead_proxies()
TestAllDone ==
    /\ Dispatch(Tester) /\ pc.tester = "wait"
    /\ running' = Tester
    /\ pc' = [pc EXCEPT !.tester = "cleanup"]
    /\ UNCHANGED << poolVars, pool_lock, db, loadVars, pullVars, testVars, cleanVars,
                    cycle, pulls, dbFailures, recorded, life, query >>


(***************************************************************************)
(* cleanup_dead_proxies                                                    *)
(***************************************************************************)
\* cleanup_dead_proxies returns: background_tester sleeps; the cycle's task
\* objects and its snapshot are dropped
EndCycle ==
    /\ running' = NoTask
    /\ cycle' = cycle + 1
    /\ proxies_to_test' = {}
    /\ probe' = [o \in ObjIds, s \in BOOLEAN |-> "none"]
    /\ success' = [o \in ObjIds, s \in BOOLEAN |-> FALSE]

\* first `async with pool_lock`
CleanupAcquire ==
    /\ running = Tester /\ pc.tester = "cleanup"
    /\ pool_lock = NoTask
    /\ pool_lock' = Tester
    /\ pc' = [pc EXCEPT !.tester = "scan"]
    /\ UNCHANGED << poolVars, db, ready, running, loadVars, pullVars, testVars,
                    cleanVars, cycle, pulls, dbFailures, recorded, life, query >>

\* faulty variant: the window-is-full test is missing
dead_proxies_any_length(pool, os) ==
    {u \in Urls : pool[u] # NoObj /\ ~is_valid(os[pool[u]], TRUE)
                                  /\ ~is_valid(os[pool[u]], FALSE)}

\* dead_proxies_urls = [url for url, proxy in PROXY_POOL.items()
\*                      if proxy.should_be_removed()]
dead_proxies(pool, os) ==
    {u \in Urls : pool[u] # NoObj /\ should_be_removed(os[pool[u]])}

\* the list is built and the lock released; `if dead_proxies_urls:` decides
\* whether the function goes on
CleanupScan ==
    /\ running = Tester /\ pc.tester = "scan"
    /\ dead_proxies_urls' = dead_proxies(PROXY_POOL, objs)
    /\ pool_lock' = NoTask
    /\ IF dead_proxies_urls' = {}
       THEN /\ pc' = [pc EXCEPT !.tester = "sleep"]
            /\ EndCycle
       ELSE /\ pc' = [pc EXCEPT !.tester = "reacquire"]
            /\ UNCHANGED << running, cycle, testVars >>
    /\ UNCHANGED << poolVars, db, ready, loadVars, pullVars, db_cleanup_tasks,
                    delete_raised, pulls, dbFailures, recorded, life, query >>

\* db_cleanup_tasks = []; second `async with pool_lock`
CleanupReacquire ==
    /\ running = Tester /\ pc.tester = "reacquire"
    /\ pool_lock = NoTask
    /\ pool_lock' = Tester
    /\ db_cleanup_tasks' = << >>
    /\ delete_raised' = FALSE
    /\ pc' = [pc EXCEPT !.tester = "delete"]
    /\ UNCHANGED << poolVars, db, ready, running, loadVars, pullVars, testVars,
                    dead_proxies_urls, cycle, pulls, dbFailures, recorded, life, query >>

\* faulty variant: the record is dropped from the pool only, no durable
\* deletion is scheduled
CleanupDeleteMemoryOnly(url) ==
    /\ running = Tester /\ pc.tester = "delete"
    /\ url \in dead_proxies_urls
    /\ dead_proxies_urls' = dead_proxies_urls \ {url}
    /\ IF PROXY_POOL[url] # NoObj
       THEN /\ PROXY_POOL' = [PROXY_POOL EXCEPT ![url] = NoObj]
            /\ objs' = Collect(objs, PROXY_POOL', save_tasks, probe)
            /\ UNCHANGED db_cleanup_tasks
       ELSE UNCHANGED << poolVars, db_cleanup_tasks >>
    /\ life' = Forget(life, objs')
    /\ UNCHANGED << pool_lock, db, ready, running, pc, loadVars, pullVars, testVars,
                    delete_raised, cycle, pulls, dbFailures, recorded, query >>

\* one iteration of `for url in dead_proxies_urls`
CleanupDelete(url) ==
    /\ running = Tester /\ pc.tester = "delete"
    /\ url \in dead_proxies_urls
    /\ dead_proxies_urls' = dead_proxies_urls \ {url}
    /\ IF PROXY_POOL[url] # NoObj
       THEN /\ PROXY_POOL' = [PROXY_POOL EXCEPT ![url] = NoObj]
            /\ db_cleanup_tasks' = Append(db_cleanup_tasks, url)
            /\ objs' = Collect(objs, PROXY_POOL', save_tasks, probe)
       ELSE UNCHANGED << poolVars, db_cleanup_tasks >>
    /\ life' = Forget(life, objs')
    /\ UNCHANGED << pool_lock, db, ready, running, pc, loadVars, pullVars, testVars,
                    delete_raised, cycle, pulls, dbFailures, recorded, query >>

\* end of the second `async with pool_lock`; `if db_cleanup_tasks: await
\* asyncio.gather(*db_cleanup_tasks)` makes a task of every delete and suspends
CleanupRelease ==
    /\ running = Tester /\ pc.tester = "delete"
    /\ dead_proxies_urls = {}
    /\ pool_lock' = NoTask
    /\ IF db_cleanup_tasks # << >>
       THEN /\ ready' = ready \o [i \in 1 .. Len(db_cleanup_tasks) |->
                                     DeleteTask(db_cleanup_tasks[i])]
            /\ pc' = [pc EXCEPT !.tester = "gather"]
            /\ running' = NoTask
            /\ UNCHANGED << cycle, testVars >>
       ELSE /\ ready' = ready
            /\ pc' = [pc EXCEPT !.tester = "sleep"]
            /\ EndCycle
    /\ UNCHANGED << poolVars, db, loadVars, pullVars, cleanVars, pulls, dbFailures,
                    recorded, life, query >>

\* database.remove_proxy_from_db(url) run as a task of the tester's gather; the
\* last one to finish makes the tester runnable again
RunDeleteTask(url) ==
    /\ running = NoTask /\ ready # << >> /\ Head(ready) = DeleteTask(url)
    /\ \E raises \in DbRaises :
         IF raises
         THEN /\ delete_raised' = TRUE
              /\ dbFailures' = dbFailures + 1
              /\ db' = db
         ELSE /\ db' = [db EXCEPT ![url] = NoRow]
              /\ UNCHANGED << delete_raised, dbFailures >>
    /\ db_cleanup_tasks' = Without(db_cleanup_tasks, url)
    /\ ready' = IF db_cleanup_tasks' = << >> THEN Append(Tail(ready), Tester)
                ELSE Tail(ready)
    /\ UNCHANGED << poolVars, pool_lock, running, pc, loadVars, pullVars, testVars,
                    dead_proxies_urls, cycle, pulls, recorded, life, query >>

\* gather returns, or raises the first exception of its tasks (no
\* return_exceptions here): nothing catches it in cleanup_dead_proxies or in
\* background_tester, so the tester task ends; otherwise log, return, sleep
CleanupDone ==
    /\ Dispatch(Tester) /\ pc.tester = "gather"
    /\ IF delete_raised
       THEN /\ pc' = [pc EXCEPT !.tester = "crashed"]
            /\ UNCHANGED << running, cycle, testVars >>
       ELSE /\ pc' = [pc EXCEPT !.tester = "sleep"]
            /\ EndCycle
    /\ UNCHANGED << poolVars, pool_lock, db, loadVars, pullVars, cleanVars, pulls,
                    dbFailures, recorded, life, query >>

\* asyncio.sleep(settings.PROXY_TEST_INTERVAL) is over
TesterTimer ==
    /\ running = NoTask /\ pc.tester = "sleep"
    /\ cycle < MaxCycles
    /\ ready' = Append(ready, Tester)
    /\ pc' = [pc EXCEPT !.tester = "start"]
    /\ UNCHANGED << poolVars, pool_lock, db, running, loadVars, pullVars, testVars,
                    cleanVars, cycle, pulls, dbFailures, recorded, life, query >>

(***************************************************************************)
(* The service.                                                            *)
(***************************************************************************)
Next ==
    \/ LoadSelect
    \/ LoadAcquire
    \/ \E u \in Urls : LoadRow(u)
    \/ LoadRelease
    \/ LifespanStart
    \/ PullStart
    \/ \E urls \in SUBSET SourceUrls : PullFetch(urls)
    \/ PullAcquire
    \/ \E u \in Urls : PullMerge(u)
    \/ PullRelease
    \/ \E o \in ObjIds : RunSaveTask(o)
    \/ PullDone
    \/ WorkerTimer
    \/ TestAllStart
    \/ TestAllSnapshot
    \/ TestAllGather
    \/ \E o \in ObjIds, s \in BOOLEAN : ProbeStart(o, s)
    \/ \E o \in ObjIds, s \in BOOLEAN, r \in Responses : ProbeResponse(o, s, r)
    \/ \E o \in ObjIds, s \in BOOLEAN : ProbeAcquire(o, s)
    \/ \E o \in ObjIds, s \in BOOLEAN : ProbeRecord(o, s)
    \/ \E o \in ObjIds, s \in BOOLEAN : ProbeSave(o, s)
    \/ \E o \in ObjIds, s \in BOOLEAN : ProbeRelease(o, s)
    \/ TestAllDone
    \/ CleanupAcquire
    \/ CleanupScan
    \/ CleanupReacquire
    \/ \E u \in Urls : CleanupDelete(u)
    \/ CleanupRelease
    \/ \E u \in Urls : RunDeleteTask(u)
    \/ CleanupDone
    \/ TesterTimer

Spec == Init /\ [][Next]_vars


(***************************************************************************)
(* One Proxy record on its own: replayed from a stored row, then fed       *)
(* outcomes.  recorded keeps every outcome the record was given per mode.  *)
(***************************************************************************)
BoolSeqs(n) == UNION {[1 .. k -> BOOLEAN] : k \in 0 .. n}

InitRecord ==
    /\ InitCommon
    /\ running = NoTask
    /\ pc = [lifespan |-> "unborn", worker |-> "unborn", tester |-> "unborn"]
    /\ \E e \in BoolSeqs(W + 1), d \in BoolSeqs(W + 1) :
         /\ db = [EmptyDb EXCEPT ![GoodUrl] = Row(json_dumps(e), json_dumps(d))]
         /\ recorded = [ssl_enabled_history |-> e, ssl_disabled_history |-> d]
    /\ query = QueryOff

\* load_proxies_from_db, the body of its loop for one row
RecordReplay ==
    /\ PROXY_POOL[GoodUrl] = NoObj
    /\ LET r == replay_row(GoodUrl, db[GoodUrl])
           o == NewObj(GoodUrl)
       IN  /\ r.ok
           /\ objs' = [objs EXCEPT ![o] = r.proxy]
           /\ PROXY_POOL' = [PROXY_POOL EXCEPT ![GoodUrl] = o]
           /\ loaded_count' = loaded_count + 1
           /\ life' = [life EXCEPT ![o] = NewLife("replayed")]
    /\ UNCHANGED << pool_lock, db, ready, running, pc, probe, success, rows, pullVars,
                    proxies_to_test, cleanVars, cycle, pulls, dbFailures, recorded, query >>

\* proxy.record_test(succ, ssl_enabled=ssl)
RecordTest(succ, ssl) ==
    /\ PROXY_POOL[GoodUrl] # NoObj
    /\ Len(IF ssl THEN recorded.ssl_enabled_history
           ELSE recorded.ssl_disabled_history) < MaxCalls
    /\ objs' = [objs EXCEPT ![PROXY_POOL[GoodUrl]] = record_test(@, succ, ssl)]
    /\ recorded' = IF ssl
                   THEN [recorded EXCEPT !.ssl_enabled_history = Append(@, succ)]
                   ELSE [recorded EXCEPT !.ssl_disabled_history = Append(@, succ)]
    /\ UNCHANGED << PROXY_POOL, pool_lock, db, ready, running, pc, probe, success,
                    loadVars, pullVars, proxies_to_test, cleanVars, cycle, pulls,
                    dbFailures, life, query >>

NextRecord ==
    \/ RecordReplay
    \/ \E succ \in BOOLEAN, ssl \in BOOLEAN : RecordTest(succ, ssl)

SpecRecord == InitRecord /\ [][NextRecord]_vars


(***************************************************************************)
(* The request handlers get_proxies and get_healthy_proxies                *)
(* (_get_filtered_proxies).  A handler has no suspension point: it runs    *)
(* from the arrival of the request to its response between two steps of    *)
(* the loop, on the pool as it is then.  Spec follows the background tasks *)
(* with no request; SpecQuery follows requests on a pool at rest, which    *)
(* holds any records the cycles can have left.                             *)
(***************************************************************************)
\* settings.PROXY_MINIMUM_STABILITY, and the 1.0 of get_healthy_proxies
PROXY_MINIMUM_STABILITY == << 1, 2 >>
HealthyStability == << 1, 1 >>

\* PROXY_POOL.values(): the records in the order of the dict
PoolValues == {f \in [1 .. Cardinality(Records) -> Records] :
                  \A i, j \in DOMAIN f : i # j => f[i] # f[j]}

\* [p for p in values if p.get_stability(ssl_enabled=ssl_enabled) >= min_stability]
RECURSIVE candidate_proxies(_, _, _)
candidate_proxies(values, min_stability, ssl_enabled) ==
    IF values = << >> THEN << >>
    ELSE (IF ratio_ge(get_stability(objs[Head(values)], ssl_enabled), min_stability)
          THEN << Head(values) >> ELSE << >>)
         \o candidate_proxies(Tail(values), min_stability, ssl_enabled)

\* faulty variant: reverse=True is missing
RECURSIVE sorted_ascending(_, _)
sorted_ascending(ps, ssl_enabled) ==
    IF ps = << >> THEN << >>
    ELSE LET rest == sorted_ascending(SubSeq(ps, 1, Len(ps) - 1), ssl_enabled)
             x == ps[Len(ps)]
             k == Cardinality({i \in DOMAIN rest :
                      ratio_ge(get_stability(objs[x], ssl_enabled),
                               get_stability(objs[rest[i]], ssl_enabled))})
         IN  SubSeq(rest, 1, k) \o << x >> \o SubSeq(rest, k + 1, Len(rest))

\* sorted(ps, key=sort_key, reverse=True): a stable sort, records of equal
\* stability keep their order
RECURSIVE sorted(_, _)
sorted(ps, ssl_enabled) ==
    IF ps = << >> THEN << >>
    ELSE LET rest == sorted(SubSeq(ps, 1, Len(ps) - 1), ssl_enabled)
             x == ps[Len(ps)]
             k == Cardinality({i \in DOMAIN rest :
                      ratio_ge(get_stability(objs[rest[i]], ssl_enabled),
                               get_stability(objs[x], ssl_enabled))})
         IN  SubSeq(rest, 1, k) \o << x >> \o SubSeq(rest, k + 1, Len(rest))

\* sorted_proxies[:limit]
result_proxies(values, min_stability, ssl_enabled, limit) ==
    LET sorted_proxies == sorted(candidate_proxies(values, min_stability, ssl_enabled),
                                 ssl_enabled)
    IN  SubSeq(sorted_proxies, 1, IF Len(sorted_proxies) < limit
                                  THEN Len(sorted_proxies) ELSE limit)

\* a pool at rest: the histories of the mode queried most are any of up to W
\* outcomes; a record whose probes raise has none
RestRecords(u) ==
    IF u \in BadUrls THEN {NoProxy, Proxy(u)}
    ELSE {NoProxy} \cup {[url |-> u, ssl_enabled_history |-> e, ssl_disabled_history |-> d] :
                            e \in BoolSeqs(W), d \in BoolSeqs(1)}

InitQuery ==
    /\ InitLocals
    /\ \E rest \in [Urls -> UNION {RestRecords(u) : u \in Urls}] :
         /\ \A u \in Urls : rest[u] \in RestRecords(u)
         /\ PROXY_POOL = [u \in Urls |-> IF rest[u] = NoProxy THEN NoObj ELSE SlotOf[u]]
         /\ objs = [o \in ObjIds |->
                       IF \E u \in Urls : SlotOf[u] = o
                       THEN rest[CHOOSE u \in Urls : SlotOf[u] = o] ELSE NoProxy]
         /\ life = [o \in ObjIds |-> IF objs[o] = NoProxy THEN NoLife
                                      ELSE NewLife("ingested")]
         /\ db = [u \in Urls |-> IF rest[u] = NoProxy THEN NoRow ELSE row_of(rest[u])]
    \* the background tasks sleep, and are not followed any further
    /\ running = NoTask
    /\ pc = [lifespan |-> "serving", worker |-> "sleep", tester |-> "sleep"]
    /\ cycle = MaxCycles
    /\ pulls = MaxPulls
    /\ recorded = [ssl_enabled_history |-> << >>, ssl_disabled_history |-> << >>]
    /\ query = [QueryOff EXCEPT !.pc = "idle"]

\* a request arrives; the handler is called and enters `async with pool_lock`
QueryCall(min_stability, ssl_enabled, limit) ==
    /\ running = NoTask /\ ready = << >>
    /\ query.pc \in {"idle", "returned", "not_found"}
    /\ pool_lock = NoTask
    /\ pool_lock' = QueryTask
    /\ running' = QueryTask
    /\ query' = [pc |-> "locked", ssl_enabled |-> ssl_enabled,
                 min_stability |-> min_stability, limit |-> limit, result |-> << >>]
    /\ UNCHANGED << poolVars, db, ready, pc, loadVars, pullVars, testVars, cleanVars,
                    cycle, pulls, dbFailures, recorded, life >>

\* candidate_proxies, sorted_proxies, result_proxies; end of `async with pool_lock`
QueryRank(values) ==
    /\ running = QueryTask /\ query.pc = "locked"
    /\ pool_lock' = NoTask
    /\ query' = [query EXCEPT !.pc = "ranked",
                              !.result = result_proxies(values, query.min_stability,
                                                        query.ssl_enabled, query.limit)]
    /\ UNCHANGED << poolVars, db, ready, running, pc, loadVars, pullVars, testVars,
                    cleanVars, cycle, pulls, dbFailures, recorded, life >>

\* `if not result_proxies: raise HTTPException(status_code=404, ...)`; otherwise
\* the records are formatted and returned
QueryRespond ==
    /\ running = QueryTask /\ query.pc = "ranked"
    /\ query' = [query EXCEPT !.pc = IF query.result = << >> THEN "not_found"
                                     ELSE "returned"]
    /\ running' = NoTask
    /\ UNCHANGED << poolVars, pool_lock, db, ready, pc, loadVars, pullVars, testVars,
                    cleanVars, cycle, pulls, dbFailures, recorded, life >>

NextQuery ==
    \/ \E min_stability \in {PROXY_MINIMUM_STABILITY, HealthyStability},
          ssl_enabled \in BOOLEAN, limit \in 1 .. MaxLimit :
          QueryCall(min_stability, ssl_enabled, limit)
    \/ \E values \in PoolValues : QueryRank(values)
    \/ QueryRespond

SpecQuery == InitQuery /\ [][NextQuery]_vars

\* the background tasks from startup on, and the requests on a pool at rest
InitService == Init \/ InitQuery
NextService == Next \/ NextQuery
SpecService == InitService /\ [][NextService]_vars


(***************************************************************************)
(* Properties.                                                             *)
(***************************************************************************)
NoTrue(h) == \A i \in 1 .. Len(h) : ~h[i]

FullAndAllFalse(p) ==
    /\ Len(p.ssl_enabled_history) = W /\ NoTrue(p.ssl_enabled_history)
    /\ Len(p.ssl_disabled_history) = W /\ NoTrue(p.ssl_disabled_history)

LastN(h, n) == SubSeq(h, (IF Len(h) > n THEN Len(h) - n ELSE 0) + 1, Len(h))

\* C1: whenever a step takes a record out of the pool, both histories of that
\* record have exactly W entries and hold no true at that moment.
C1_CleanupRemovesOnlyDead ==
    [][\A u \in Urls :
          (PROXY_POOL[u] # NoObj /\ PROXY_POOL'[u] = NoObj)
              => FullAndAllFalse(objs[PROXY_POOL[u]])]_vars

\* cleanup has deleted a record in its second lock window, after an ingestion
C1_Witness ==
    /\ pc.tester = "delete" /\ db_cleanup_tasks # << >>
    /\ pulls > 0

\* C2: each history of every record has at most W entries and is the last
\* min(n, W) of the n outcomes given to the record for that mode (stored row
\* first, then the record_test calls), oldest first.
C2_SlidingWindow ==
    \A o \in Records :
        /\ Len(objs[o].ssl_enabled_history) <= W
        /\ Len(objs[o].ssl_disabled_history) <= W
        /\ objs[o].ssl_enabled_history = LastN(recorded.ssl_enabled_history, W)
        /\ objs[o].ssl_disabled_history = LastN(recorded.ssl_disabled_history, W)

\* a replayed record that was given more than W outcomes in each mode, the
\* oldest of them a true that has left the window
C2_Witness ==
    /\ Records # {}
    /\ Len(recorded.ssl_enabled_history) = MaxCalls
    /\ Len(recorded.ssl_disabled_history) > W
    /\ recorded.ssl_enabled_history[1]
    /\ \E o \in Records : NoTrue(objs[o].ssl_enabled_history)

\* C3: should_be_removed() is true exactly when both histories have W entries
\* and neither holds a true.
C3_RemovableIff ==
    \A o \in Records : should_be_removed(objs[o]) <=> FullAndAllFalse(objs[o])

\* scenario 2: one full all-false window, the other full with a true: kept
C3_Witness ==
    \E o \in Records :
        /\ objs[o].ssl_disabled_history = AllFalse(W)
        /\ Len(objs[o].ssl_enabled_history) = W
        /\ ~NoTrue(objs[o].ssl_enabled_history)
        /\ ~should_be_removed(objs[o])

\* C4: a step of ingestion or of startup replay that presents an identity already
\* in the pool leaves the pool entry, the record and the set of records as
\* they are.
C4_InsertIfAbsentIdempotent ==
    [][\A u \in Urls :
          ( /\ PROXY_POOL[u] # NoObj
            /\ \/ pc.worker = "merge" /\ u \in new_urls /\ u \notin new_urls'
               \/ pc.lifespan = "rows" /\ u \in rows /\ u \notin rows' )
          => /\ PROXY_POOL'[u] = PROXY_POOL[u]
             /\ objs'[PROXY_POOL[u]] = objs[PROXY_POOL[u]]
             /\ {o \in ObjIds : objs'[o] # NoProxy} = {o \in ObjIds : objs[o] # NoProxy}]_vars

\* ingestion is about to merge an identity whose record has history and a probe
\* in flight
C4_Witness ==
    /\ running = Worker /\ pc.worker = "merge"
    /\ \E u \in new_urls :
         /\ PROXY_POOL[u] # NoObj
         /\ objs[PROXY_POOL[u]].ssl_enabled_history # << >>
         /\ \E s \in BOOLEAN : probe[PROXY_POOL[u], s] = "request"

\* C5: no probe raises: each one ends by returning, after recording its outcome.
C5_ProbeNeverRaises ==
    \A o \in ObjIds, s \in BOOLEAN : probe[o, s] # "raised"

\* C6: a failed durable write in a test cycle does not end the scheduler.
C6_StoreFailureNonFatal ==
    dbFailures > 0 => pc.tester # "crashed"

RowLoads(u) == db[u] # NoRow /\ replay_row(u, db[u]).ok

\* C7: once replay has ended (no sqlite3 error), it has ended normally, every
\* row whose columns load is in the pool with its histories, and loaded_count
\* is the number of such rows.
C7_MalformedRowSkipped ==
    (pc.lifespan \in {"loaded", "failed"} /\ dbFailures = 0)
        => /\ pc.lifespan = "loaded"
           /\ \A u \in Urls : RowLoads(u) =>
                  /\ PROXY_POOL[u] # NoObj
                  /\ objs[PROXY_POOL[u]] = replay_row(u, db[u]).proxy
           /\ loaded_count = Cardinality({u \in Urls : RowLoads(u)})

\* the task is at a network call or at a call of sqlite3
AtIoCall(t) ==
    \/ t = Lifespan /\ pc.lifespan = "select"
    \/ t = Worker /\ pc.worker = "fetch"
    \/ t.kind = "probe" /\ probe[t.obj, t.ssl] \in {"request", "save"}

\* C8 as stated: the holder of the pool lock is never at a network or a disk call.
C8_LockNeverAcrossIo ==
    pool_lock # NoTask => ~AtIoCall(pool_lock)

\* C8, amended: the pool lock is held only by the task that is executing, never
\* across a suspension (a request, a gather, a sleep), and the one call of the
\* durable store made under it is the upsert of a probe after record_test.
C8_LockOnlyAcrossProbeUpsert ==
    /\ pool_lock # NoTask => pool_lock = running
    /\ running = NoTask => pool_lock = NoTask
    /\ (pool_lock # NoTask /\ AtIoCall(pool_lock))
          => pool_lock.kind = "probe" /\ probe[pool_lock.obj, pool_lock.ssl] = "save"

\* a probe holds the lock at its save_proxy_to_db call
C8_Witness ==
    \E o \in ObjIds, s \in BOOLEAN :
        pool_lock = ProbeTask(o, s) /\ probe[o, s] = "save"

\* the tasks inside an `async with pool_lock` block
CriticalTasks ==
    (IF pc.lifespan = "rows" THEN {Lifespan} ELSE {})
    \cup (IF pc.worker = "merge" THEN {Worker} ELSE {})
    \cup (IF pc.tester \in {"snapshot", "scan", "delete"} THEN {Tester} ELSE {})
    \cup (IF query.pc = "locked" THEN {QueryTask} ELSE {})
    \cup {ProbeTask(x[1], x[2]) : x \in {y \in ObjIds \X BOOLEAN :
                                          probe[y[1], y[2]] \in {"record", "save", "release"}}}

\* C9: at most one task is inside a pool_lock block and it is the holder; every
\* step that changes the pool map or creates or changes a record is taken by
\* the holder, from inside its block.
C9_MutationsUnderLock ==
    /\ [](Cardinality(CriticalTasks) <= 1 /\ \A t \in CriticalTasks : pool_lock = t)
    /\ [][( \/ PROXY_POOL' # PROXY_POOL
            \/ \E o \in ObjIds : objs'[o] # objs[o] /\ objs'[o] # NoProxy )
          => (pool_lock # NoTask /\ pool_lock = running /\ running \in CriticalTasks)]_vars

\* ingestion has inserted a record under the lock while a probe is in flight
C9_Witness ==
    /\ pc.worker = "merge" /\ pool_lock = Worker /\ added_count > 0
    /\ \E o \in ObjIds, s \in BOOLEAN : probe[o, s] = "request"

CleanupPcs == {"cleanup", "scan", "reacquire", "delete", "gather"}

\* C10: the probes of a cycle are those of the snapshot, one per record and mode;
\* cleanup runs only with every probe ended (returned or raised); a probe that
\* raises leaves the other probes as they are; and once all have ended the
\* tester is queued and its next step is the cleanup.
C10_CleanupAfterAllProbes ==
    /\ []( /\ pc.tester \in ({"wait"} \cup CleanupPcs) =>
                \A o \in ObjIds, s \in BOOLEAN :
                    (probe[o, s] # "none") <=> (o \in proxies_to_test)
           /\ pc.tester \in CleanupPcs =>
                \A o \in ObjIds, s \in BOOLEAN : probe[o, s] \in {"none", "done", "raised"}
           /\ ( pc.tester = "wait" /\ \A o \in ObjIds, s \in BOOLEAN :
                                          probe[o, s] \in {"none", "done", "raised"} )
                => \E i \in DOMAIN ready : ready[i] = Tester )
    /\ [][ /\ \A o \in ObjIds, s \in BOOLEAN :
                (probe'[o, s] = "raised" /\ probe[o, s] # "raised") =>
                    \A o2 \in ObjIds, s2 \in BOOLEAN :
                        (<< o2, s2 >> # << o, s >>) => probe'[o2, s2] = probe[o2, s2]
           /\ (pc.tester = "wait" /\ pc'.tester # "wait") => pc'.tester = "cleanup" ]_vars

\* cleanup scans the pool after a cycle in which one probe raised and one returned
C10_Witness ==
    /\ pc.tester = "scan"
    /\ \E o \in ObjIds, s \in BOOLEAN : probe[o, s] = "raised"
    /\ \E o \in ObjIds, s \in BOOLEAN : probe[o, s] = "done"

\* a probe task or a delete task is in the ready queue
CycleTaskQueued == \E i \in DOMAIN ready : ready[i].kind \in {"probe", "delete"}

\* C11: test cycles are strictly sequential.  A probe is in flight only while
\* the tester waits in the gather of its cycle; between the end of a cleanup and
\* the launch of the next cycle's probes nothing of a cycle is left (no probe, no
\* delete task, no dead list); a snapshot is taken only in that state; and a
\* cycle is counted as finished only by the step that ends its cleanup.
C11_CyclesSequential ==
    /\ [](\A o \in ObjIds, s \in BOOLEAN : ~ProbeSettled(probe[o, s]) => pc.tester = "wait")
    /\ [](pc.tester \in {"sleep", "start", "snapshot", "launch"} =>
              /\ \A o \in ObjIds, s \in BOOLEAN : probe[o, s] = "none"
              /\ db_cleanup_tasks = << >>
              /\ dead_proxies_urls = {}
              /\ ~CycleTaskQueued)
    /\ [][ /\ (proxies_to_test' # proxies_to_test /\ proxies_to_test' # {}) =>
                /\ pc.tester = "snapshot"
                /\ \A o \in ObjIds, s \in BOOLEAN : probe[o, s] = "none"
                /\ db_cleanup_tasks = << >> /\ ~CycleTaskQueued
           /\ (cycle' # cycle) =>
                /\ cycle' = cycle + 1
                /\ pc.tester \in {"scan", "delete", "gather"} /\ pc'.tester = "sleep"
                /\ db_cleanup_tasks = << >> ]_vars

\* the cleanup of a later cycle waits for its delete while the worker is queued
\* behind it
C11_Witness ==
    /\ pc.tester = "gather" /\ cycle >= 1
    /\ db_cleanup_tasks # << >>
    /\ \E i \in DOMAIN ready : ready[i] = Worker

\* the row of the identity holds, read back with json.loads, the two histories of p
RowMirrors(u, p) ==
    /\ db[u] # NoRow
    /\ json_loads(db[u].ssl_enabled_history) = JsonValue(p.ssl_enabled_history)
    /\ json_loads(db[u].ssl_disabled_history) = JsonValue(p.ssl_disabled_history)

\* C12: when the two probes of a record have ended, in whatever order, each of
\* the cycles that probed the record has put exactly one outcome on each of its
\* histories, and the row of the record equals its two histories as they are now.
C12_ProbePairConverges ==
    pc.tester = "cleanup" =>
        \A o \in proxies_to_test :
            /\ life[o].ssl_enabled = life[o].cycles
            /\ life[o].ssl_disabled = life[o].cycles
            /\ RowMirrors(objs[o].url, objs[o])

\* C13: whenever a test cycle has finished, no sqlite3 operation has raised and
\* no save of ingestion is pending, every identity of the pool has a row that
\* holds the two histories of its record, and no other identity has a row.
C13_StoreMirrorsPool ==
    (pc.tester = "sleep" /\ cycle >= 1 /\ dbFailures = 0 /\ save_tasks = << >>)
        => \A u \in Urls :
              IF PROXY_POOL[u] # NoObj
              THEN RowMirrors(u, objs[PROXY_POOL[u]])
              ELSE db[u] = NoRow

\* after the last cycle: a record that ingestion created and a cycle probed is
\* mirrored with its outcomes, and an identity that had a row has none
C13_Witness ==
    /\ pc.tester = "sleep" /\ cycle = MaxCycles /\ dbFailures = 0 /\ save_tasks = << >>
    /\ \E o \in Records : /\ life[o].origin = "ingested" /\ life[o].cycles >= 1
                          /\ objs[o].ssl_enabled_history # << >>
    /\ \E u \in Urls : PROXY_POOL[u] = NoObj /\ db[u] = NoRow

\* C14: removal is terminal.  The step that takes an identity out of the pool
\* frees its record, and once the service runs, every step that puts an
\* identity into the pool puts a record made by ingestion with two empty
\* histories there, whatever row the table still holds for the identity.
C14_RemovalTerminal ==
    [][\A u \in Urls :
          /\ (PROXY_POOL[u] # NoObj /\ PROXY_POOL'[u] = NoObj)
                => objs'[PROXY_POOL[u]] = NoProxy
          /\ (pc.lifespan = "serving" /\ PROXY_POOL[u] = NoObj /\ PROXY_POOL'[u] # NoObj)
                => /\ objs'[PROXY_POOL'[u]] = Proxy(u)
                   /\ life'[PROXY_POOL'[u]] = NewLife("ingested")]_vars

\* an identity that cleanup removed is in the pool again, with a new record,
\* while the delete of its old row, which still holds the old histories, is queued
C14_Witness ==
    \E u \in Urls :
        /\ pc.tester = "gather"
        /\ \E i \in DOMAIN ready : ready[i] = DeleteTask(u)
        /\ PROXY_POOL[u] # NoObj /\ objs[PROXY_POOL[u]] = Proxy(u)
        /\ db[u] # NoRow /\ db[u] # row_of(Proxy(u))

\* the records of the pool that a request for (min_stability, ssl_enabled) asks for
Qualifying(min_stability, ssl_enabled) ==
    {o \in Records : ratio_ge(get_stability(objs[o], ssl_enabled), min_stability)}

\* C18: the answer of a ranked query holds only records of the pool whose stability
\* in the mode asked for is at least the minimum, each once, ordered by
\* non-increasing stability, at most `limit` of them, and no qualifying record
\* left out has a strictly higher stability than a returned one; the request ends
\* with 'not found' exactly when no record qualifies, never with an empty list.
C18_RankedQuery ==
    query.pc \in {"ranked", "returned", "not_found"} =>
        LET r == query.result
            st(o) == get_stability(objs[o], query.ssl_enabled)
            Q == Qualifying(query.min_stability, query.ssl_enabled)
        IN  /\ \A i \in DOMAIN r : r[i] \in Q
            /\ \A i, j \in DOMAIN r : i # j => r[i] # r[j]
            /\ \A i, j \in DOMAIN r : i < j => ratio_ge(st(r[i]), st(r[j]))
            /\ Len(r) <= query.limit
            /\ \A o \in Q \ Range(r) : \A i \in DOMAIN r : ratio_ge(st(r[i]), st(o))
            /\ query.pc = "not_found" => Q = {}
            /\ query.pc = "returned" => r # << >>
            /\ (Q = {} /\ query.pc # "ranked") => query.pc = "not_found"

\* a request with limit 1 was answered with one record while a qualifying
\* record of strictly lower stability was left out
C18_Witness ==
    /\ query.pc = "returned" /\ query.limit = 1
    /\ \E o \in Qualifying(query.min_stability, query.ssl_enabled) :
         /\ o \notin Range(query.result)
         /\ ~ratio_ge(get_stability(objs[o], query.ssl_enabled),
                      get_stability(objs[query.result[1]], query.ssl_enabled))

\* the step is the record_test call of the probe of object o in mode s
IsProbeRecord(o, s) ==
    running = ProbeTask(o, s) /\ probe[o, s] = "record" /\ probe'[o, s] = "save"

\* C15: a step changes the histories of a record that stays in the pool only if
\* it is the record_test call of one of the record's probes; that step puts the
\* probe's outcome at the end of the history of the probe's mode (the oldest
\* entry leaves a full window), and leaves the other history and every other
\* record as they are.  Steps of ingestion, of cleanup and of a request leave
\* every such record as it is.
C15_OnlyProbesMutate ==
    [][ /\ \A u \in Urls :
             (PROXY_POOL[u] # NoObj /\ PROXY_POOL'[u] = PROXY_POOL[u]) =>
                LET o == PROXY_POOL[u]
                IN  IF \E s \in BOOLEAN : IsProbeRecord(o, s)
                    THEN \A s \in BOOLEAN : IsProbeRecord(o, s) =>
                            LET mine(p) == IF s THEN p.ssl_enabled_history
                                           ELSE p.ssl_disabled_history
                                other(p) == IF s THEN p.ssl_disabled_history
                                            ELSE p.ssl_enabled_history
                            IN  /\ mine(objs'[o]) = LastN(Append(mine(objs[o]), success[o, s]), W)
                                /\ other(objs'[o]) = other(objs[o])
                                /\ objs'[o].url = objs[o].url
                                /\ \A o2 \in ObjIds \ {o} : objs'[o2] = objs[o2]
                    ELSE objs'[o] = objs[o]
        /\ (query' # query \/ running = Worker \/ running = Tester)
              => \A o \in Records' \cap Records : objs'[o] = objs[o] ]_vars

\* a probe has recorded its outcome on a record that has entries in the other
\* history, while another record is in the pool
C15_Witness ==
    /\ Cardinality(Records) >= 2
    /\ \E o \in Records, s \in BOOLEAN :
         /\ probe[o, s] = "save"
         /\ (IF s THEN objs[o].ssl_disabled_history ELSE objs[o].ssl_enabled_history) # << >>

Zero == << 0, 1 >>
One == << 1, 1 >>

AllTrue(h) == \A i \in 1 .. Len(h) : h[i]

HistoryOf(p, ssl_enabled) ==
    IF ssl_enabled THEN p.ssl_enabled_history ELSE p.ssl_disabled_history

\* C16 as stated: the stability of each mode is in [0,1], is 0.0 for an empty
\* history, and is 1.0 if and only if every entry of the history is true.
C16_StabilityAsStated ==
    \A o \in Records, s \in BOOLEAN :
        LET h == HistoryOf(objs[o], s)
            st == get_stability(objs[o], s)
        IN  /\ st[2] > 0 /\ ratio_ge(st, Zero) /\ ratio_ge(One, st)
            /\ h = << >> => ratio_eq(st, Zero)
            /\ ratio_eq(st, One) <=> AllTrue(h)

\* C16, amended: the stability of each mode is in [0,1], is 0.0 for an empty
\* history, and is 1.0 if and only if the history is not empty and every entry
\* of it is true.
C16_StabilityRange ==
    \A o \in Records, s \in BOOLEAN :
        LET h == HistoryOf(objs[o], s)
            st == get_stability(objs[o], s)
        IN  /\ st[2] > 0 /\ ratio_ge(st, Zero) /\ ratio_ge(One, st)
            /\ h = << >> => ratio_eq(st, Zero)
            /\ ratio_eq(st, One) <=> (h # << >> /\ AllTrue(h))

\* a record with one true in a window that is not full (stability 1.0) and an
\* empty history (stability 0.0)
C16_Witness ==
    \E o \in Records :
        /\ objs[o].ssl_enabled_history = << TRUE >> /\ W > 1
        /\ ratio_eq(get_stability(objs[o], TRUE), One)
        /\ objs[o].ssl_disabled_history = << >>
        /\ ratio_eq(get_stability(objs[o], FALSE), Zero)

\* C17: while a true is among the last W outcomes given to the record in a mode
\* (fewer than W outcomes of that mode have followed it), the record is not
\* removable; once the last W outcomes of both modes are all false, it is
\* removable, whatever came before them.
C17_TrueHoldsWindow ==
    \A o \in Records :
        /\ \A s \in BOOLEAN :
              LET r == HistoryOf(recorded, s)
              IN  (\E i \in DOMAIN r : r[i] /\ Len(r) - i < W)
                      => ~should_be_removed(objs[o])
        /\ ( /\ Len(recorded.ssl_enabled_history) >= W
             /\ Len(recorded.ssl_disabled_history) >= W
             /\ NoTrue(LastN(recorded.ssl_enabled_history, W))
             /\ NoTrue(LastN(recorded.ssl_disabled_history, W)) )
              => should_be_removed(objs[o])

\* a true outcome followed by W or more false ones in its mode, the last of them
\* given by record_test, and W false outcomes in the other mode: the record is
\* removable again
C17_Witness ==
    /\ recorded.ssl_enabled_history = << TRUE >> \o AllFalse(MaxCalls - 1)
    /\ recorded.ssl_disabled_history = AllFalse(W)
    /\ \E o \in Records : should_be_removed(objs[o])

\* C19: when a test cycle has finished, no record made by ingestion whose probes
\* have all failed (no true in either history) and which W or more cycles have
\* probed is still in the pool.
C19_FailingRecordRemovedAfterW ==
    pc.tester = "sleep" =>
        \A o \in Records :
            ( /\ life[o].origin = "ingested"
              /\ NoTrue(objs[o].ssl_enabled_history)
              /\ NoTrue(objs[o].ssl_disabled_history) )
                => life[o].cycles < W

\* every task of the program
Tasks == {Lifespan, Worker, Tester, QueryTask}
         \cup {ProbeTask(o, s) : o \in ObjIds, s \in BOOLEAN}

\* the next thing the task does is to enter an `async with pool_lock` block
AtAcquire(t) ==
    \/ t = Lifespan /\ pc.lifespan = "acquire"
    \/ t = Worker /\ pc.worker = "acquire"
    \/ t = Tester /\ pc.tester \in {"start", "cleanup", "reacquire"}
    \/ t.kind = "probe" /\ probe[t.obj, t.ssl] = "response"

\* the task has ended, by returning or by an exception
HasEnded(t) ==
    \/ t = Lifespan /\ pc.lifespan = "failed"
    \/ t = Worker /\ pc.worker = "crashed"
    \/ t = Tester /\ pc.tester = "crashed"
    \/ t.kind = "probe" /\ probe[t.obj, t.ssl] \in {"done", "raised"}
    \/ t = QueryTask /\ query.pc \in {"returned", "not_found"}

\* the task is in the ready queue
IsReady(t) == \E i \in DOMAIN ready : ready[i] = t

\* the number of steps the holder of the lock has left in its block
StepsToRelease ==
    IF pool_lock = Lifespan THEN Cardinality(rows) + 1
    ELSE IF pool_lock = Worker THEN Cardinality(new_urls) + 1
    ELSE IF pool_lock = Tester
         THEN (IF pc.tester = "delete" THEN Cardinality(dead_proxies_urls) + 1 ELSE 1)
    ELSE IF pool_lock.kind = "probe"
         THEN (IF probe[pool_lock.obj, pool_lock.ssl] = "record" THEN 3
               ELSE IF probe[pool_lock.obj, pool_lock.ssl] = "save" THEN 2 ELSE 1)
    ELSE IF pool_lock = QueryTask THEN 1
    ELSE 0

====
